---- MODULE Spec2Model ----
(***************************************************************************)
(* Model of skyline_agent/threed_tiles_utils.py: create_glb_from_building  *)
(* and generate_building_tileset.                                          *)
(*                                                                         *)
(* Numbers.  Python floats are modelled as pairs <<kind, value>> with kind *)
(* "fin" (an exact integer value), "nan", "inf" or "ninf", with the IEEE   *)
(* rules for the non-finite kinds.  All finite inputs are even integers,   *)
(* so every division by 2.0 of the code is exact.  A geometric error e is  *)
(* carried as 100 * e^2 (e >= 0, so the order of errors is the order of    *)
(* the carried values); this keeps np.sqrt(...) / 10.0 exact.              *)
(***************************************************************************)
EXTENDS Integers, Sequences, FiniteSets, TLC

\* ---------------------------------------------------------------- bounds
MaxRows == 2

\* ---------------------------------------------------------------- floats
Fin(n) == <<"fin", n>>
NaN == <<"nan", 0>>
PosInf == <<"inf", 0>>
NegInf == <<"ninf", 0>>

IsFin(a) == a[1] = "fin"
IsNaN(a) == a[1] = "nan"

FNeg(a) ==
  CASE a[1] = "fin" -> Fin(0 - a[2])
    [] a[1] = "inf" -> NegInf
    [] a[1] = "ninf" -> PosInf
    [] OTHER -> NaN

\* The largest finite float (sys.float_info.max) in the units of the model,
\* and half the gap to the next float above it: a sum that exceeds MaxFinite
\* by less than HalfUlp rounds back to MaxFinite, a larger one is inf.
MaxFinite == 1048576
HalfUlp == 1024

Overflowed(n) ==
  IF n >= MaxFinite + HalfUlp THEN PosInf
  ELSE IF n > MaxFinite THEN Fin(MaxFinite)
  ELSE IF n <= 0 - (MaxFinite + HalfUlp) THEN NegInf
  ELSE IF n < 0 - MaxFinite THEN Fin(0 - MaxFinite)
  ELSE Fin(n)

FAdd(a, b) ==
  IF IsNaN(a) \/ IsNaN(b) THEN NaN
  ELSE IF IsFin(a) /\ IsFin(b) THEN Overflowed(a[2] + b[2])
  ELSE IF IsFin(a) THEN b
  ELSE IF IsFin(b) THEN a
  ELSE IF a = b THEN a
  ELSE NaN

FSub(a, b) == FAdd(a, FNeg(b))

\* x / 2.0 (finite values are even, see Even below)
FHalf(a) == IF IsFin(a) THEN Fin(a[2] \div 2) ELSE a

\* x ** 2
FSq(a) ==
  CASE a[1] = "fin" -> Fin(a[2] * a[2])
    [] a[1] = "nan" -> NaN
    [] OTHER -> PosInf

\* x * k for a positive integer literal k
FScale(a, k) == IF IsFin(a) THEN Fin(a[2] * k) ELSE a

\* a < b; every comparison with NaN is false
FLt(a, b) ==
  IF IsNaN(a) \/ IsNaN(b) THEN FALSE
  ELSE IF IsFin(a) /\ IsFin(b) THEN a[2] < b[2]
  ELSE IF a = b THEN FALSE
  ELSE a[1] = "ninf" \/ b[1] = "inf"

FGt(a, b) == FLt(b, a)
FLe(a, b) == IF IsNaN(a) \/ IsNaN(b) THEN FALSE ELSE FLt(a, b) \/ a = b
FGe(a, b) == FLe(b, a)

\* Python's min(iterable): keeps the first item, replaces it by a later item
\* that compares strictly smaller.
RECURSIVE PyMin(_)
PyMin(s) ==
  IF Len(s) = 1 THEN s[1]
  ELSE LET m == PyMin(SubSeq(s, 1, Len(s) - 1))
       IN IF FLt(s[Len(s)], m) THEN s[Len(s)] ELSE m

RECURSIVE PyMax(_)
PyMax(s) ==
  IF Len(s) = 1 THEN s[1]
  ELSE LET m == PyMax(SubSeq(s, 1, Len(s) - 1))
       IN IF FGt(s[Len(s)], m) THEN s[Len(s)] ELSE m

\* ------------------------------------------------------------- geometry
None == "None"

\* A shapely geometry: whether it is a Polygon, shapely's is_valid verdict and
\* exterior.coords (the ring with its closing duplicate of the first point).
Geom(isPolygon, is_valid, coords) ==
  [isPolygon |-> isPolygon, is_valid |-> is_valid, coords |-> coords]

\* Rectangle number k: Polygon([(x0,y0),(x0,y1),(x1,y1),(x1,y0)]) with
\* x0 = 20k, x1 = 20k+10, y0 = 6k, y1 = 10k+10.  k = 0 is the square of the
\* tests, (0,0)-(0,10)-(10,10)-(10,0).
Footprint(k) ==
  LET x0 == 20 * k
      x1 == 20 * k + 10
      y0 == 6 * k
      y1 == 10 * k + 10
  IN Geom(TRUE, TRUE, << <<x0, y0>>, <<x0, y1>>, <<x1, y1>>, <<x1, y0>>, <<x0, y0>> >>)

\* A self-intersecting ring: a Polygon, but not is_valid.
Bowtie == Geom(TRUE, FALSE, << <<0, 0>>, <<10, 10>>, <<10, 0>>, <<0, 10>>, <<0, 0>> >>)

\* A ring with two distinct vertices, Polygon([(0,0),(10,10),(10,10)]): the
\* fewest coordinates a ring can be built from; a Polygon, but not is_valid.
TwoPointRing == Geom(TRUE, FALSE, << <<0, 0>>, <<10, 10>>, <<10, 10>>, <<0, 0>> >>)

\* Polygon(): the empty polygon is_valid and has no exterior coordinates.
EmptyPolygon == Geom(TRUE, TRUE, <<>>)

\* A geometry that is not a Polygon (a Point).
PointGeom == Geom(FALSE, TRUE, << <<0, 0>> >>)

\* The ring of g listed in the other direction.
Reversed(g) ==
  Geom(g.isPolygon, g.is_valid, [i \in 1..Len(g.coords) |-> g.coords[Len(g.coords) + 1 - i]])

\* A concave (L-shaped) footprint, listed clockwise like the square of the tests.
LShape ==
  Geom(TRUE, TRUE, << <<0, 0>>, <<0, 20>>, <<10, 20>>, <<10, 10>>, <<20, 10>>, <<20, 0>>,
                      <<0, 0>> >>)

Footprints == {Footprint(0), Footprint(1)}
\* Valid simple footprints, convex and concave, in both directions.
SimpleFootprints == {Footprint(0), Reversed(Footprint(0)), LShape, Reversed(LShape)}
TableGeoms == Footprints \cup {Bowtie}
CallGeoms == TableGeoms \cup SimpleFootprints \cup {TwoPointRing, EmptyPolygon, PointGeom}

SetMin(S) == CHOOSE m \in S : \A x \in S : m <= x
SetMax(S) == CHOOSE m \in S : \A x \in S : m >= x

\* building_polygon.bounds = (minx, miny, maxx, maxy)
Bounds(g) ==
  LET xs == {g.coords[i][1] : i \in 1..Len(g.coords)}
      ys == {g.coords[i][2] : i \in 1..Len(g.coords)}
  IN [minx |-> Fin(SetMin(xs)), miny |-> Fin(SetMin(ys)),
      maxx |-> Fin(SetMax(xs)), maxy |-> Fin(SetMax(ys))]

\* --------------------------------------------------------------- heights
\* The cell building[height_column] of a row: a float (NaN where the value is
\* missing in a numeric column), or a value float() does not accept, such as
\* the text 'invalid'.
StrCell == <<"str", 0>>

\* A missing value (None).
NoneCell == <<"None", 0>>

Raised == <<"raise", 0>>

\* float(building[height_column]): the float, or the exception raised
\* (ValueError, TypeError and KeyError are all caught by the same handler).
ParseHeight(cell) ==
  IF cell[1] \in {"fin", "nan", "inf", "ninf"} THEN cell ELSE Raised

TableCells == {Fin(20), Fin(14), Fin(0), Fin(-6), NaN, PosInf, StrCell}
CallHeights ==
  {Fin(20), Fin(14), Fin(2), Fin(0), Fin(-6), NaN, PosInf, NegInf, NoneCell, StrCell}

\* ------------------------------------------------- create_glb_from_building
\* What the trimesh calls inside the try block do: all succeed, the
\* triangulation raises, the export raises (after the mesh was built), or the
\* export returns a zero-length payload.
LibOutcomes == {"ok", "triangulate_raises", "export_raises", "export_empty"}

Glb == "glb"
\* b'': mesh.export's return value is returned as it is.
EmptyBytes == "empty"

\* The warning for an invalid polygon formats building_polygon.is_valid_reason.
\* A shapely geometry has no such attribute (is_valid_reason is a function of
\* the shapely module), so the statement raises AttributeError, and it stands
\* before the try block.
AttributeError == "AttributeError"
TypeError == "TypeError"

\* The result: glb is None, the bytes, or the exception that left the
\* function; mesh says whether trimesh.Trimesh was constructed.
create_glb_from_building(building_polygon, height, lib) ==
  LET rejected == [glb |-> None, mesh |-> FALSE]
      num_points == Len(building_polygon.coords) - 1
  IN IF ~building_polygon.isPolygon THEN rejected
     ELSE IF ~building_polygon.is_valid THEN [glb |-> AttributeError, mesh |-> FALSE]
     ELSE IF ParseHeight(height) = Raised THEN [glb |-> TypeError, mesh |-> FALSE]
     ELSE IF FLe(height, Fin(0)) THEN rejected
     ELSE IF Len(building_polygon.coords) < 4 THEN rejected
     ELSE IF num_points < 3 THEN rejected
     ELSE IF lib = "triangulate_raises" THEN rejected
     ELSE IF lib = "export_raises" THEN [glb |-> None, mesh |-> TRUE]
     ELSE IF lib = "export_empty" THEN [glb |-> EmptyBytes, mesh |-> TRUE]
     ELSE [glb |-> Glb, mesh |-> TRUE]

\* ------------------------------------------------------------ the mesh
\* exterior_coords[:-1]: the ring without its closing duplicate.  Vertex
\* number i of the code (0-based) is unique_coords(g)[i + 1].
unique_coords(g) == SubSeq(g.coords, 1, Len(g.coords) - 1)

\* all_vertices_np: the ring at z = 0, then the ring at z = height.  Vertex
\* number k of the code (0-based) is all_vertices(g, h)[k + 1].
all_vertices(building_polygon, height) ==
  LET pts == unique_coords(building_polygon)
      num_points == Len(pts)
  IN [k \in 1..(2 * num_points) |->
        IF k <= num_points THEN <<pts[k][1], pts[k][2], Fin(0)>>
        ELSE <<pts[k - num_points][1], pts[k - num_points][2], height>>]

\* Twice the signed area of the triangle a, b, c (> 0: counter-clockwise).
Cross(a, b, c) == (b[1] - a[1]) * (c[2] - a[2]) - (b[2] - a[2]) * (c[1] - a[1])

\* Twice the signed area of the ring pts (> 0: counter-clockwise).
RECURSIVE Shoelace(_, _)
Shoelace(pts, i) ==
  IF i = 0 THEN 0
  ELSE LET a == pts[i]
           b == pts[(i % Len(pts)) + 1]
       IN a[1] * b[2] - b[1] * a[2] + Shoelace(pts, i - 1)

\* trimesh.creation.triangulate_polygon as the code reads its result: a list
\* of index triples into unique_coords, each counter-clockwise, covering the
\* polygon.  The triangulation taken here is the fan from the reflex vertex
\* (from vertex 0 when the ring is convex), which lies inside the polygon for
\* rings with at most one reflex vertex.
triangulate_polygon(pts) ==
  LET n == Len(pts)
      turn(i) == Cross(pts[((i + n - 1) % n) + 1], pts[i + 1], pts[((i + 1) % n) + 1])
      reflex == {i \in 0..(n - 1) : turn(i) * Shoelace(pts, n) < 0}
      apex == IF reflex = {} THEN 0 ELSE CHOOSE i \in reflex : TRUE
      tri(k) == LET a == apex
                    b == (apex + k) % n
                    c == (apex + k + 1) % n
                IN IF Cross(pts[a + 1], pts[b + 1], pts[c + 1]) > 0
                   THEN <<a, b, c>> ELSE <<a, c, b>>
  IN [k \in 1..(n - 2) |-> tri(k)]

\* faces with the floor triangles in the order of the triangulation.
faces_floor_kept(building_polygon) ==
  LET pts == unique_coords(building_polygon)
      num_points == Len(pts)
      wall(j) == LET i == (j - 1) \div 2
                     p0 == i
                     p1 == (i + 1) % num_points
                     p2 == ((i + 1) % num_points) + num_points
                     p3 == i + num_points
                 IN IF j % 2 = 1 THEN <<p0, p1, p2>> ELSE <<p0, p2, p3>>
      tris == triangulate_polygon(pts)
      walls == [j \in 1..(2 * num_points) |-> wall(j)]
      floor == [k \in 1..Len(tris) |-> <<tris[k][1], tris[k][2], tris[k][3]>>]
      roof == [k \in 1..Len(tris) |->
                 <<tris[k][1] + num_points, tris[k][2] + num_points, tris[k][3] + num_points>>]
  IN walls \o floor \o roof

\* The list `faces` of create_glb_from_building: two triangles per wall, the
\* floor triangles reversed, the roof triangles offset by num_points.
faces(building_polygon) ==
  LET pts == unique_coords(building_polygon)
      num_points == Len(pts)
      wall(j) == LET i == (j - 1) \div 2
                     p0 == i
                     p1 == (i + 1) % num_points
                     p2 == ((i + 1) % num_points) + num_points
                     p3 == i + num_points
                 IN IF j % 2 = 1 THEN <<p0, p1, p2>> ELSE <<p0, p2, p3>>
      tris == triangulate_polygon(pts)
      walls == [j \in 1..(2 * num_points) |-> wall(j)]
      floor == [k \in 1..Len(tris) |-> <<tris[k][3], tris[k][2], tris[k][1]>>]
      roof == [k \in 1..Len(tris) |->
                 <<tris[k][1] + num_points, tris[k][2] + num_points, tris[k][3] + num_points>>]
  IN walls \o floor \o roof

\* ------------------------------------------------------------ the tables
\* A row of buildings_gdf: its index label, its geometry and the cell of the
\* height column.
Row(index, geometry, cell) == [index |-> index, geometry |-> geometry, height |-> cell]

\* Tables with a default RangeIndex (labels 0, 1, ... in row order).
RECURSIVE TablesOfLen(_)
TablesOfLen(n) ==
  IF n = 0 THEN {<<>>}
  ELSE {Append(t, Row(n - 1, g, c)) : t \in TablesOfLen(n - 1), g \in TableGeoms, c \in TableCells}

Tables == UNION {TablesOfLen(n) : n \in 0..MaxRows}

\* Tables whose index labels are chosen by the caller and may repeat (pandas
\* does not require unique labels); iterrows() yields (label, row).
MaxLabelledRows == 3
IndexLabels == {0, 1}
LabelledGeoms == {Footprint(0), TwoPointRing}
LabelledCells == {Fin(20), Fin(0), StrCell}

RECURSIVE LabelledTablesOfLen(_)
LabelledTablesOfLen(n) ==
  IF n = 0 THEN {<<>>}
  ELSE {Append(t, Row(l, g, c)) : t \in LabelledTablesOfLen(n - 1), l \in IndexLabels,
                                  g \in LabelledGeoms, c \in LabelledCells}

LabelledTables == UNION {LabelledTablesOfLen(n) : n \in 0..MaxLabelledRows}

\* ---------------------------------------------------------------- state
VARIABLES
  call,                     \* the function the caller invoked
  buildings_gdf,            \* generate_building_tileset: the feature table
  glb_args,                 \* create_glb_from_building: <<[polygon, height, lib]>>
  glb_out,                  \* create_glb_from_building: <<what it returned, and
                            \* the faces of the mesh it built>>
  pc,                       \* position in generate_building_tileset
  row,                      \* position of the row iterrows() yields next
  ts,                       \* the TileSet: tiles, bounding_volume, geometric_error
  all_tile_bounding_boxes,  \* the box_array of every tile added
  tiles_dir,                \* files in <output_dir>/tiles
  tileset_json,             \* <output_dir>/tileset.json: <<>> or <<the TileSet written>>
  result,                   \* the return value: None while running, "True", "False"
  log,                      \* the logger's records: one per row processed (its
                            \* skip warning or "saved"), then the error if any
  first_run,                \* <<>>, or <<what an earlier run on the same table
                            \* produced in its own output directory>>
  fn_args,                  \* a direct call of an analysis function: <<its arguments>>
  fn_out,                   \* <<>>, or <<what that call returned>>
  api_pc,                   \* position in get_scene_data
  disk,                     \* the files the request names: buildings, land_use
  land_use_gdf,             \* get_scene_data: the land-use table loaded
  recommendation_details,   \* get_scene_data: <<>> (None) or <<the details>>
  calls,                    \* the functions get_scene_data has called, in order
  response,                 \* <<>>, or <<the response sent>>
  other_pc                  \* position of another request for the same scene

\* The variables of the request handler, and those a single run leaves alone.
apiVars ==
  <<api_pc, disk, land_use_gdf, recommendation_details, calls, response, other_pc>>
others == <<first_run, fn_args, fn_out, apiVars>>

vars == <<call, buildings_gdf, glb_args, glb_out, pc, row, ts,
          all_tile_bounding_boxes, tiles_dir, tileset_json, result, log, others>>

NoBox == <<>>
EmptyTileSet == [tiles |-> <<>>, bounding_volume |-> NoBox, geometric_error |-> Fin(0)]

InitCommon ==
  /\ glb_out = <<>>
  /\ pc = "idle"
  /\ row = 1
  /\ ts = EmptyTileSet
  /\ all_tile_bounding_boxes = <<>>
  /\ tiles_dir = {}
  /\ tileset_json = <<>>
  /\ result = None
  /\ log = <<>>
  /\ first_run = <<>>
  /\ fn_args = <<>>
  /\ fn_out = <<>>

\* No request is being handled.
NoRequest ==
  /\ api_pc = "none"
  /\ disk = <<>>
  /\ land_use_gdf = <<>>
  /\ recommendation_details = <<>>
  /\ calls = <<>>
  /\ response = <<>>
  /\ other_pc = "none"

Init ==
  /\ InitCommon
  /\ NoRequest
  /\ \/ /\ call = "generate_building_tileset"
        /\ buildings_gdf \in Tables
        /\ glb_args = <<>>
     \/ /\ call = "create_glb_from_building"
        /\ buildings_gdf = <<>>
        /\ glb_args \in {<<a>> : a \in [building_polygon : CallGeoms, height : CallHeights,
                                         lib : LibOutcomes]}

\* ------------------------------------------------ generate_building_tileset
\* MakeDirs with the TileSet and the list of boxes kept from one call to the
\* next (as if they were created once, at module level).
MakeDirs_SharedTileSet ==
  /\ call = "generate_building_tileset"
  /\ pc = "idle"
  /\ pc' = "rows"
  /\ row' = 1
  /\ UNCHANGED <<call, buildings_gdf, glb_args, glb_out, ts, all_tile_bounding_boxes,
                 tiles_dir, tileset_json, result, log, others>>

\* os.makedirs(output_dir), os.makedirs(tiles_data_dir) succeed;
\* ts = TileSet(), all_tile_bounding_boxes = [] and the loop starts.
MakeDirs ==
  /\ call = "generate_building_tileset"
  /\ pc = "idle"
  /\ pc' = "rows"
  /\ ts' = EmptyTileSet
  /\ all_tile_bounding_boxes' = <<>>
  /\ row' = 1
  /\ UNCHANGED <<call, buildings_gdf, glb_args, glb_out, tiles_dir, tileset_json,
                 result, log, others>>

\* os.makedirs raises: caught by the outer handler, return False.
MakeDirsFails ==
  /\ call = "generate_building_tileset"
  /\ pc = "idle"
  /\ pc' = "done"
  /\ result' = "False"
  /\ log' = Append(log, "error_makedirs")
  /\ UNCHANGED <<call, buildings_gdf, glb_args, glb_out, row, ts,
                 all_tile_bounding_boxes, tiles_dir, tileset_json, others>>

InLoop == pc = "rows" /\ row <= Len(buildings_gdf)
building == buildings_gdf[row]
height == ParseHeight(building.height)
HeightAccepted == height # Raised /\ ~FLe(height, Fin(0))

\* The row is skipped with a warning and the loop continues.
Skip(reason) ==
  /\ log' = Append(log, reason)
  /\ row' = row + 1
  /\ UNCHANGED <<call, buildings_gdf, glb_args, glb_out, pc, ts,
                 all_tile_bounding_boxes, tileset_json, result, others>>

\* float(...) raises ValueError, TypeError or KeyError.
SkipUnparsableHeight ==
  /\ InLoop
  /\ height = Raised
  /\ Skip("bad_height")
  /\ UNCHANGED tiles_dir

\* height <= 0
SkipNonPositiveHeight ==
  /\ InLoop
  /\ height # Raised
  /\ FLe(height, Fin(0))
  /\ Skip("non_positive_height")
  /\ UNCHANGED tiles_dir

\* create_glb_from_building returned None (not glb_bytes).
SkipGlb ==
  /\ InLoop
  /\ HeightAccepted
  /\ \E lib \in LibOutcomes :
       create_glb_from_building(building.geometry, height, lib).glb = None
  /\ Skip("glb_failed")
  /\ UNCHANGED tiles_dir

\* create_glb_from_building returned b'': `not glb_bytes` is true for it as
\* for None, the same warning is logged and the loop continues.  The record
\* in log keeps the two apart.
SkipEmptyGlb ==
  /\ InLoop
  /\ HeightAccepted
  /\ \E lib \in LibOutcomes :
       create_glb_from_building(building.geometry, height, lib).glb = EmptyBytes
  /\ Skip("glb_empty")
  /\ UNCHANGED tiles_dir

\* create_glb_from_building raises: the call stands outside the inner
\* handlers, so the outer handler logs and returns False.
GlbRaisesGuard ==
  /\ InLoop
  /\ HeightAccepted
  /\ \E lib \in LibOutcomes :
       create_glb_from_building(building.geometry, height, lib).glb = AttributeError

GlbBuilt ==
  /\ InLoop
  /\ HeightAccepted
  /\ \E lib \in LibOutcomes :
       create_glb_from_building(building.geometry, height, lib).glb = Glb

\* Fail without the outer handler: the exception reaches the caller.
Fail_Propagates(error) ==
  /\ pc' = "done"
  /\ result' = error
  /\ log' = Append(log, error)
  /\ UNCHANGED <<call, buildings_gdf, glb_args, glb_out, row, ts,
                 all_tile_bounding_boxes, tileset_json, others>>

\* An exception outside the inner handlers: logged, return False.
Fail(error) ==
  /\ pc' = "done"
  /\ result' = "False"
  /\ log' = Append(log, error)
  /\ UNCHANGED <<call, buildings_gdf, glb_args, glb_out, row, ts,
                 all_tile_bounding_boxes, tileset_json, others>>

GlbRaises ==
  /\ GlbRaisesGuard
  /\ Fail("error_glb")
  /\ UNCHANGED tiles_dir

\* B3dm.from_glb(glb_bytes) raises.
PackagingRaises ==
  /\ GlbBuilt
  /\ Fail("error_packaging")
  /\ UNCHANGED tiles_dir

b3dm_filename == <<"building", building.index>>

\* open(b3dm_filepath, 'wb') truncates or creates the file; `complete` says
\* whether f.write finished.
WriteFile(complete) ==
  {f \in tiles_dir : f.name # b3dm_filename}
    \cup {[name |-> b3dm_filename, row |-> row, complete |-> complete]}

box_array ==
  LET b == Bounds(building.geometry)
      center_x == FHalf(FAdd(b.minx, b.maxx))
      center_y == FHalf(FAdd(b.miny, b.maxy))
      center_z == FHalf(height)
      extent_x == FHalf(FSub(b.maxx, b.minx))
      extent_y == FHalf(FSub(b.maxy, b.miny))
      extent_z == FHalf(height)
      O == Fin(0)
  IN <<center_x, center_y, center_z,
       extent_x, O, O,
       O, extent_y, O,
       O, O, extent_z>>

\* np.sqrt((maxx-minx)**2 + (maxy-miny)**2) / 10.0, carried as 100 * e^2;
\* replaced by 1.0 when not > 0.
tile_geometric_error ==
  LET b == Bounds(building.geometry)
      geometric_error == FAdd(FSq(FSub(b.maxx, b.minx)), FSq(FSub(b.maxy, b.miny)))
  IN IF FGt(geometric_error, Fin(0)) THEN geometric_error ELSE Fin(100)

\* WriteTileFails with the failure left to the outer handler.
WriteTileFails_Fatal ==
  /\ GlbBuilt
  /\ \E opened \in BOOLEAN :
       tiles_dir' = IF opened THEN WriteFile(FALSE) ELSE tiles_dir
  /\ Fail("write_failed")

\* open() or f.write() raises inside the inner try: error logged, continue.
WriteTileFails ==
  /\ GlbBuilt
  /\ \E opened \in BOOLEAN :
       tiles_dir' = IF opened THEN WriteFile(FALSE) ELSE tiles_dir
  /\ Skip("write_failed")

\* The tile file is written, then Tile(), BoundingBox.from_list or
\* ts.add_tile raises.
DescribeRaises ==
  /\ GlbBuilt
  /\ tiles_dir' = WriteFile(TRUE)
  /\ Fail("error_describe")

\* AddTile with the tile inserted at the head of the children list.
AddTile_AtHead ==
  /\ GlbBuilt
  /\ tiles_dir' = WriteFile(TRUE)
  /\ ts' = [ts EXCEPT !.tiles = <<[content_uri |-> <<"tiles", b3dm_filename>>,
                                   bounding_volume |-> box_array,
                                   geometric_error |-> tile_geometric_error]>> \o @]
  /\ all_tile_bounding_boxes' = Append(all_tile_bounding_boxes, box_array)
  /\ log' = Append(log, "saved")
  /\ row' = row + 1
  /\ UNCHANGED <<call, buildings_gdf, glb_args, glb_out, pc, tileset_json, result, others>>

\* The tile file is written and the tile is added to the tileset.
AddTile ==
  /\ GlbBuilt
  /\ tiles_dir' = WriteFile(TRUE)
  /\ ts' = [ts EXCEPT !.tiles = Append(@,
               [content_uri |-> <<"tiles", b3dm_filename>>,
                bounding_volume |-> box_array,
                geometric_error |-> tile_geometric_error])]
  /\ all_tile_bounding_boxes' = Append(all_tile_bounding_boxes, box_array)
  /\ log' = Append(log, "saved")
  /\ row' = row + 1
  /\ UNCHANGED <<call, buildings_gdf, glb_args, glb_out, pc, tileset_json, result, others>>

\* ----------------------------------------------------- root of the tileset
DefaultGeometricError == 100

\* [b[i] - b[j] for b in boxes] and [b[i] + b[j] for b in boxes]
Lows(boxes, i, j) == [n \in 1..Len(boxes) |-> FSub(boxes[n][i], boxes[n][j])]
Highs(boxes, i, j) == [n \in 1..Len(boxes) |-> FAdd(boxes[n][i], boxes[n][j])]

\* The root box of a nonempty list of boxes (Python b[0], b[3], b[7], b[11]
\* are b[1], b[4], b[8], b[12] here).
root_box_array(boxes) ==
  LET min_overall_x == PyMin(Lows(boxes, 1, 4))
      min_overall_y == PyMin(Lows(boxes, 2, 8))
      min_overall_z == PyMin(Lows(boxes, 3, 12))
      max_overall_x == PyMax(Highs(boxes, 1, 4))
      max_overall_y == PyMax(Highs(boxes, 2, 8))
      max_overall_z == PyMax(Highs(boxes, 3, 12))
      root_center_x == FHalf(FAdd(min_overall_x, max_overall_x))
      root_center_y == FHalf(FAdd(min_overall_y, max_overall_y))
      root_center_z == FHalf(FAdd(min_overall_z, max_overall_z))
      root_extent_x == FHalf(FSub(max_overall_x, min_overall_x))
      root_extent_y == FHalf(FSub(max_overall_y, min_overall_y))
      root_extent_z == FHalf(FSub(max_overall_z, min_overall_z))
      O == Fin(0)
  IN <<root_center_x, root_center_y, root_center_z,
       root_extent_x, O, O,
       O, root_extent_y, O,
       O, O, root_extent_z>>

\* np.sqrt(ex**2 + ey**2 + ez**2) * 2, carried as 100 * e^2 = 400 * (sum).
root_geometric_error(box) ==
  FScale(FAdd(FAdd(FSq(box[4]), FSq(box[8])), FSq(box[12])), 400)

\* BoundingBox.from_list([0,0,0, 1,0,0, 0,1,0, 0,0,1])
DefaultBox ==
  <<Fin(0), Fin(0), Fin(0),
    Fin(1), Fin(0), Fin(0),
    Fin(0), Fin(1), Fin(0),
    Fin(0), Fin(0), Fin(1)>>

\* ts.bounding_volume and ts.geometric_error as set after the loop.
Finalized ==
  IF all_tile_bounding_boxes # <<>>
  THEN [ts EXCEPT !.bounding_volume = root_box_array(all_tile_bounding_boxes),
                  !.geometric_error =
                     root_geometric_error(root_box_array(all_tile_bounding_boxes))]
  ELSE [ts EXCEPT !.bounding_volume = DefaultBox,
                  !.geometric_error =
                     Fin(100 * DefaultGeometricError * DefaultGeometricError)]

LoopDone == pc = "rows" /\ row > Len(buildings_gdf)

\* The root is computed, ts.write_to_file succeeds, return True.
WriteTileset ==
  /\ LoopDone
  /\ ts' = Finalized
  /\ tileset_json' = <<ts'>>
  /\ result' = "True"
  /\ pc' = "done"
  /\ UNCHANGED <<call, buildings_gdf, glb_args, glb_out, row,
                 all_tile_bounding_boxes, tiles_dir, log, others>>

\* The root is computed, ts.write_to_file raises, return False.
WriteTilesetFails ==
  /\ LoopDone
  /\ ts' = Finalized
  /\ result' = "False"
  /\ pc' = "done"
  /\ log' = Append(log, "error_write_tileset")
  /\ UNCHANGED <<call, buildings_gdf, glb_args, glb_out, row,
                 all_tile_bounding_boxes, tiles_dir, tileset_json, others>>

\* ------------------------------------- a direct create_glb_from_building call
CreateGlbCall ==
  /\ call = "create_glb_from_building"
  /\ pc = "idle"
  /\ LET out == create_glb_from_building(glb_args[1].building_polygon,
                                         glb_args[1].height, glb_args[1].lib)
     IN glb_out' = <<[glb |-> out.glb, mesh |-> out.mesh,
                      vertices |-> IF out.mesh
                                   THEN all_vertices(glb_args[1].building_polygon,
                                                     glb_args[1].height)
                                   ELSE <<>>,
                      faces |-> IF out.mesh THEN faces(glb_args[1].building_polygon)
                                ELSE <<>>]>>
  /\ pc' = "done"
  /\ UNCHANGED <<call, buildings_gdf, glb_args, row, ts, all_tile_bounding_boxes,
                 tiles_dir, tileset_json, result, log, others>>

Next ==
  \/ MakeDirs
  \/ MakeDirsFails
  \/ SkipUnparsableHeight
  \/ SkipNonPositiveHeight
  \/ SkipGlb
  \/ SkipEmptyGlb
  \/ GlbRaises
  \/ PackagingRaises
  \/ WriteTileFails
  \/ DescribeRaises
  \/ AddTile
  \/ WriteTileset
  \/ WriteTilesetFails
  \/ CreateGlbCall

Spec == Init /\ [][Next]_vars

\* ------------------------- generate_building_tileset over labelled tables
InitLabels ==
  /\ InitCommon
  /\ NoRequest
  /\ call = "generate_building_tileset"
  /\ buildings_gdf \in LabelledTables
  /\ glb_args = <<>>

NextGenerate ==
  \/ MakeDirs
  \/ MakeDirsFails
  \/ SkipUnparsableHeight
  \/ SkipNonPositiveHeight
  \/ SkipGlb
  \/ SkipEmptyGlb
  \/ GlbRaises
  \/ PackagingRaises
  \/ WriteTileFails
  \/ DescribeRaises
  \/ AddTile
  \/ WriteTileset
  \/ WriteTilesetFails

SpecLabels == InitLabels /\ [][NextGenerate]_vars

\* ------------------------------------------ two runs on the same table
MaxTwiceRows == 2

\* The rows of the tables run twice: <<geometry, height cell>>.
TwiceRows ==
  {<<Footprint(0), Fin(20)>>, <<Footprint(1), Fin(14)>>, <<Footprint(0), Fin(0)>>,
   <<Footprint(0), StrCell>>, <<Bowtie, Fin(20)>>}

RECURSIVE TwiceTablesOfLen(_)
TwiceTablesOfLen(n) ==
  IF n = 0 THEN {<<>>}
  ELSE {Append(t, Row(n - 1, r[1], r[2])) : t \in TwiceTablesOfLen(n - 1), r \in TwiceRows}

TwiceTables == UNION {TwiceTablesOfLen(n) : n \in 0..MaxTwiceRows}

InitTwice ==
  /\ InitCommon
  /\ NoRequest
  /\ call = "generate_building_tileset"
  /\ buildings_gdf \in TwiceTables
  /\ glb_args = <<>>

\* What a finished run produced: the TileSet, the descriptor, the names of
\* the files in tiles/, the return value, and what happened row by row.
Outcome ==
  [ts |-> ts, tileset_json |-> tileset_json, names |-> {f.name : f \in tiles_dir},
   result |-> result, log |-> log]

\* The caller keeps what the first run produced and calls the function again
\* with the same table and another fresh output directory.
SecondRun ==
  /\ call = "generate_building_tileset"
  /\ pc = "done"
  /\ first_run = <<>>
  /\ first_run' = <<Outcome>>
  /\ pc' = "idle"
  /\ result' = None
  /\ log' = <<>>
  /\ tiles_dir' = {}
  /\ tileset_json' = <<>>
  /\ UNCHANGED <<call, buildings_gdf, glb_args, glb_out, row, ts,
                 all_tile_bounding_boxes, fn_args, fn_out, apiVars>>

NextTwice ==
  \/ NextGenerate
  \/ SecondRun

SpecTwice == InitTwice /\ [][NextTwice]_vars

\* ---------------------------------------------------------- gis_utils
\* A file a request names: missing, unreadable, or a readable table.
DiskFile(state, table) == [state |-> state, table |-> table]

\* gpd.read_file's table; after FileNotFoundError or any other exception an
\* empty GeoDataFrame.  Neither function raises or returns None.
load_buildings(file) == IF file.state = "ok" THEN file.table ELSE <<>>
load_land_use(file) == IF file.state = "ok" THEN file.table ELSE <<>>

\* ------------------------------------------------------- analysis_utils
\* The one column of plot ids the tables of the model have.
PlotIdColumn == "plot_ID"

\* The geometry of the first row whose plot id is the target: <<>> (None) or
\* <<geometry>>.  First, the same with the last match taken.
get_target_plot_last(land_use, column, id) ==
  LET hits == SelectSeq(land_use, LAMBDA r : r.plot_ID = id)
  IN IF column # PlotIdColumn THEN <<>>
     ELSE IF hits = <<>> THEN <<>> ELSE <<hits[Len(hits)].geometry>>

\* land_use_gdf[column] raises KeyError when the column does not exist (an
\* empty GeoDataFrame has no column); every exception gives None.
get_target_plot(land_use, column, id) ==
  LET hits == SelectSeq(land_use, LAMBDA r : r.plot_ID = id)
  IN IF column # PlotIdColumn THEN <<>>
     ELSE IF hits = <<>> THEN <<>> ELSE <<hits[1].geometry>>

\* buffer_distance of recommend_building_height
BufferDistance == 50

\* building.intersects(target.buffer(50)), decided on the bounding boxes (the
\* plots and buildings of the model are either within a few units of each
\* other or hundreds of units apart).
\* The buffer of an empty geometry is empty and intersects nothing.
Nearby(target, g) ==
  IF target.coords = <<>> \/ g.coords = <<>> THEN FALSE
  ELSE LET a == Bounds(target)
           b == Bounds(g)
       IN /\ b.minx[2] <= a.maxx[2] + BufferDistance
          /\ a.minx[2] - BufferDistance <= b.maxx[2]
          /\ b.miny[2] <= a.maxy[2] + BufferDistance
          /\ a.miny[2] - BufferDistance <= b.maxy[2]

\* What a caller may pass as target_plot_geometry: None, a GeoSeries, a
\* geometry, or a value of another type.
NoGeometry == [kind |-> "None", geoms |-> <<>>]
GeoSeries(geoms) == [kind |-> "GeoSeries", geoms |-> geoms]
BaseGeometry(g) == [kind |-> "BaseGeometry", geoms |-> <<g>>]
Unsupported == [kind |-> "str", geoms |-> <<>>]

\* The one column of heights the tables of the model have.
HeightColumn == "height"

\* sum(heights): from 0, left to right
RECURSIVE FSumFrom(_, _)
FSumFrom(start, hs) ==
  IF hs = <<>> THEN start ELSE FSumFrom(FAdd(start, hs[1]), Tail(hs))
FSum(hs) == FSumFrom(Fin(0), hs)

\* The heights float() converts to a number > 0, in row order.
positive_heights(rows) ==
  LET usable(b) == IF ParseHeight(b.height) = Raised THEN FALSE
                   ELSE FGt(ParseHeight(b.height), Fin(0))
      kept == SelectSeq(rows, usable)
  IN [i \in 1..Len(kept) |-> ParseHeight(kept[i].height)]

\* sum(heights) / len(heights)
average(heights) ==
  LET total == FSum(heights)
  IN IF IsFin(total) THEN Fin(total[2] \div Len(heights)) ELSE total

\* The mean of the heights > 0 of the buildings near the target: <<>> (None)
\* or <<value>>.
recommend_building_height(target_plot_geometry, surrounding_buildings_gdf, height_column) ==
  IF target_plot_geometry.kind \notin {"GeoSeries", "BaseGeometry"} THEN <<>>
  ELSE IF target_plot_geometry.geoms = <<>> THEN <<>>
  ELSE IF surrounding_buildings_gdf = <<>> THEN <<>>
  ELSE LET actual_geometry == target_plot_geometry.geoms[1]
           nearby_buildings ==
             SelectSeq(surrounding_buildings_gdf,
                       LAMBDA b : Nearby(actual_geometry, b.geometry))
           heights == positive_heights(nearby_buildings)
       IN IF nearby_buildings = <<>> THEN <<>>
          ELSE IF height_column # HeightColumn THEN <<>>
          ELSE IF heights = <<>> THEN <<>>
          ELSE <<average(heights)>>

\* ------------------------------------------------------ GET /scene_data
\* The query parameters (their defaults).
buildings_file == "data/sample_buildings.shp"
land_use_file == "data/sample_land_use.shp"
target_plot_id == "PlotA123"
plot_id_column == "plot_ID"

\* What an earlier request left in this request's output directory.
StaleTiles == {[name |-> <<"building", 7>>, row |-> 0, complete |-> TRUE]}
StaleDescriptor == <<EmptyTileSet>>

\* A plot far from every building of the model.
FarPlot == Footprint(50)

ApiTables == TablesOfLen(1)
BuildingFiles ==
  {DiskFile("missing", <<>>), DiskFile("unreadable", <<>>)}
    \cup {DiskFile("ok", t) : t \in {<<>>} \cup ApiTables}
LandUseTables ==
  {<<>>,
   <<[plot_ID |-> "PlotA123", geometry |-> Footprint(0)]>>,
   <<[plot_ID |-> "PlotA123", geometry |-> FarPlot]>>,
   <<[plot_ID |-> "PlotA123", geometry |-> EmptyPolygon]>>,
   <<[plot_ID |-> "PlotB", geometry |-> Footprint(0)]>>}
LandUseFiles == {DiskFile("missing", <<>>)} \cup {DiskFile("ok", t) : t \in LandUseTables}

\* A request arrives; the output directory may hold an earlier scene.
RequestArrives ==
  /\ call = "get_scene_data"
  /\ buildings_gdf = <<>>
  /\ glb_args = <<>>
  /\ glb_out = <<>>
  /\ pc = "idle"
  /\ row = 1
  /\ ts = EmptyTileSet
  /\ all_tile_bounding_boxes = <<>>
  /\ result = None
  /\ log = <<>>
  /\ first_run = <<>>
  /\ fn_args = <<>>
  /\ fn_out = <<>>
  /\ api_pc = "start"
  /\ disk \in [buildings : BuildingFiles, land_use : LandUseFiles, stale : BOOLEAN]
  /\ tiles_dir = IF disk.stale THEN StaleTiles ELSE {}
  /\ tileset_json = IF disk.stale THEN StaleDescriptor ELSE <<>>
  /\ land_use_gdf = <<>>
  /\ recommendation_details = <<>>
  /\ calls = <<>>
  /\ response = <<>>

InitApi ==
  /\ RequestArrives
  /\ other_pc = "none"

\* The handler is between its first statement and its response.
HandlerRunning == api_pc \notin {"none", "start", "responded"}

\* The other request is between its first statement and its response.
OtherRunning == other_pc \notin {"none", "waiting", "done"}

HTTPException(status_code, detail) ==
  [type |-> "HTTPException", status_code |-> status_code, detail |-> detail]

\* handle with the generic clause tried before the HTTPException clause.
handle_rewrapping(exc) ==
  IF exc.type = "FileNotFoundError"
  THEN [status_code |-> 404, detail |-> <<"GIS data file not found: ">> \o exc.detail]
  ELSE [status_code |-> 500,
        detail |-> <<"An internal server error occurred: ">> \o exc.detail]

\* The except clauses of get_scene_data in their order: FileNotFoundError,
\* HTTPException (re-raised), Exception.  The result is the response FastAPI
\* sends for the HTTPException that leaves the handler.
handle(exc) ==
  IF exc.type = "FileNotFoundError"
  THEN [status_code |-> 404, detail |-> <<"GIS data file not found: ">> \o exc.detail]
  ELSE IF exc.type = "HTTPException"
  THEN [status_code |-> exc.status_code, detail |-> exc.detail]
  ELSE [status_code |-> 500,
        detail |-> <<"An internal server error occurred: ">> \o exc.detail]

\* The request ends with the response r.
Respond(r) ==
  /\ response' = <<r>>
  /\ api_pc' = "responded"

\* Both tables are loaded, buildings first.
LoadData ==
  /\ api_pc = "start"
  /\ ~OtherRunning
  /\ buildings_gdf' = load_buildings(disk.buildings)
  /\ land_use_gdf' = load_land_use(disk.land_use)
  /\ calls' = calls \o <<"load_buildings", "load_land_use">>
  /\ api_pc' = "loaded"
  /\ UNCHANGED <<call, glb_args, glb_out, pc, row, ts, all_tile_bounding_boxes,
                 tiles_dir, tileset_json, result, log, first_run, fn_args, fn_out, other_pc, disk,
                 recommendation_details, response>>

\* buildings_gdf is None or empty: 404.
BuildingsNotFound ==
  /\ api_pc = "loaded"
  /\ buildings_gdf = <<>>
  /\ Respond(handle(HTTPException(404,
         <<"Building data not found or empty at ", buildings_file>>)))
  /\ UNCHANGED <<call, buildings_gdf, glb_args, glb_out, pc, row, ts,
                 all_tile_bounding_boxes, tiles_dir, tileset_json, result, log,
                 first_run, fn_args, fn_out, other_pc, disk, land_use_gdf, recommendation_details, calls>>

\* land_use_gdf is None or empty: 404.
LandUseNotFound ==
  /\ api_pc = "loaded"
  /\ buildings_gdf # <<>>
  /\ land_use_gdf = <<>>
  /\ Respond(handle(HTTPException(404,
         <<"Land use data not found or empty at ", land_use_file>>)))
  /\ UNCHANGED <<call, buildings_gdf, glb_args, glb_out, pc, row, ts,
                 all_tile_bounding_boxes, tiles_dir, tileset_json, result, log,
                 first_run, fn_args, fn_out, other_pc, disk, land_use_gdf, recommendation_details, calls>>

\* centroid.x, centroid.y of a rectangle, and z = 0
position(g) ==
  LET b == Bounds(g)
  IN <<FHalf(FAdd(b.minx, b.maxx)), FHalf(FAdd(b.miny, b.maxy)), Fin(0)>>

\* `if target_plot_geom_shapely:`: None is false, and so is an empty geometry.
truthy(target) == IF target = <<>> THEN FALSE ELSE target[1].coords # <<>>

\* get_target_plot and, when the plot was found, recommend_building_height.
Analysed ==
  /\ LET target == get_target_plot(land_use_gdf, plot_id_column, target_plot_id)
         recommended_height ==
           IF ~truthy(target) THEN <<>>
           ELSE recommend_building_height(BaseGeometry(target[1]), buildings_gdf,
                                          HeightColumn)
     IN /\ calls' = calls \o <<"get_target_plot">>
                       \o (IF truthy(target) THEN <<"recommend_building_height">> ELSE <<>>)
        /\ recommendation_details' =
             IF recommended_height = <<>> THEN <<>>
             ELSE <<[value |-> recommended_height[1], plot_id |-> target_plot_id,
                     position |-> position(target[1])]>>
  /\ api_pc' = "analysed"
  /\ UNCHANGED <<call, buildings_gdf, glb_args, glb_out, pc, row, ts,
                 all_tile_bounding_boxes, tiles_dir, tileset_json, result, log,
                 first_run, fn_args, fn_out, other_pc, disk, land_use_gdf, response>>

\* Analyse without the test of the land-use table.
Analyse_LandUseUnchecked ==
  /\ api_pc = "loaded"
  /\ buildings_gdf # <<>>
  /\ Analysed

\* The analysis runs once both tables have passed their tests.
Analyse ==
  /\ api_pc = "loaded"
  /\ buildings_gdf # <<>>
  /\ land_use_gdf # <<>>
  /\ Analysed

SceneDirExists == tiles_dir # {} \/ tileset_json # <<>>

\* PrepareDir without the removal of an existing directory.
PrepareDir_KeepsDir ==
  /\ api_pc = "analysed"
  /\ calls' = calls \o <<"makedirs">>
  /\ api_pc' = "prepared"
  /\ UNCHANGED <<call, buildings_gdf, glb_args, glb_out, pc, row, ts,
                 all_tile_bounding_boxes, tiles_dir, tileset_json, result, log,
                 first_run, fn_args, fn_out, other_pc, disk, land_use_gdf,
                 recommendation_details, response>>

\* os.makedirs of the base directory; the request's directory is removed when
\* it exists.
PrepareDir ==
  /\ api_pc = "analysed"
  /\ calls' = calls \o <<"makedirs">> \o (IF SceneDirExists THEN <<"rmtree">> ELSE <<>>)
  /\ tiles_dir' = {}
  /\ tileset_json' = <<>>
  /\ api_pc' = "prepared"
  /\ UNCHANGED <<call, buildings_gdf, glb_args, glb_out, pc, row, ts,
                 all_tile_bounding_boxes, result, log, first_run, fn_args, fn_out, other_pc, disk, land_use_gdf,
                 recommendation_details, response>>

\* os.makedirs of the base directory raises (FileNotFoundError is an OSError
\* of its own clause).
PrepareDirRaises ==
  /\ api_pc = "analysed"
  /\ calls' = calls \o <<"makedirs">>
  /\ \E type \in {"FileNotFoundError", "OSError"} :
       Respond(handle([type |-> type, detail |-> <<"static/tilesets">>]))
  /\ UNCHANGED <<call, buildings_gdf, glb_args, glb_out, pc, row, ts,
                 all_tile_bounding_boxes, tiles_dir, tileset_json, result, log,
                 first_run, fn_args, fn_out, other_pc, disk, land_use_gdf, recommendation_details>>

\* generate_building_tileset(buildings_gdf, height_column, output_dir) is
\* called; its steps are the actions of NextGenerate.
CallGenerate ==
  /\ api_pc = "prepared"
  /\ call' = "generate_building_tileset"
  /\ calls' = calls \o <<"generate_building_tileset">>
  /\ api_pc' = "generating"
  /\ UNCHANGED <<buildings_gdf, glb_args, glb_out, pc, row, ts,
                 all_tile_bounding_boxes, tiles_dir, tileset_json, result, log,
                 first_run, fn_args, fn_out, other_pc, disk, land_use_gdf, recommendation_details, response>>

GenerateReturned(value) == api_pc = "generating" /\ pc = "done" /\ result = value

\* not tileset_generated: 500.
GenerateFailed ==
  /\ GenerateReturned("False")
  /\ Respond(handle(HTTPException(500, <<"Failed to generate 3D tileset.">>)))
  /\ UNCHANGED <<call, buildings_gdf, glb_args, glb_out, pc, row, ts,
                 all_tile_bounding_boxes, tiles_dir, tileset_json, result, log,
                 first_run, fn_args, fn_out, other_pc, disk, land_use_gdf, recommendation_details, calls>>

\* JSONResponse serialises with allow_nan=False.
Serialisable ==
  IF recommendation_details = <<>> THEN TRUE
  ELSE IsFin(recommendation_details[1].value)

\* f"/{STATIC_DIR}/tilesets/{request_specific_tileset_name}/tileset.json"
tileset_url == <<"/static/tilesets/scene_", target_plot_id, "_height", "/tileset.json">>

\* The 200 response with the tileset URL and the recommendation.
RespondOk ==
  /\ GenerateReturned("True")
  /\ Serialisable
  /\ Respond([status_code |-> 200,
              detail |-> <<tileset_url, recommendation_details>>])
  /\ UNCHANGED <<call, buildings_gdf, glb_args, glb_out, pc, row, ts,
                 all_tile_bounding_boxes, tiles_dir, tileset_json, result, log,
                 first_run, fn_args, fn_out, other_pc, disk, land_use_gdf, recommendation_details, calls>>

\* JSONResponse raises ValueError for a value that is not finite.
RespondRaises ==
  /\ GenerateReturned("True")
  /\ ~Serialisable
  /\ Respond(handle([type |-> "ValueError",
                     detail |-> <<"Out of range float values are not JSON compliant">>]))
  /\ UNCHANGED <<call, buildings_gdf, glb_args, glb_out, pc, row, ts,
                 all_tile_bounding_boxes, tiles_dir, tileset_json, result, log,
                 first_run, fn_args, fn_out, other_pc, disk, land_use_gdf, recommendation_details, calls>>

NextApi ==
  \/ LoadData
  \/ BuildingsNotFound
  \/ LandUseNotFound
  \/ Analyse
  \/ PrepareDir
  \/ PrepareDirRaises
  \/ CallGenerate
  \/ NextGenerate
  \/ GenerateFailed
  \/ RespondOk
  \/ RespondRaises

SpecApi == InitApi /\ [][NextApi]_vars

\* ------------------------------------------- two requests, one event loop
\* get_scene_data is an `async def` without any await: the event loop runs
\* the coroutine of a request from its first statement to its response before
\* it starts another.  The other request asks for the same plot and height
\* column, so its output directory is the same; of its steps only those that
\* touch the directory are kept.
OtherTile == [name |-> <<"building", 0>>, row |-> 0, complete |-> TRUE]
OtherDescriptor == [EmptyTileSet EXCEPT !.bounding_volume = DefaultBox]

\* OtherStart as if the handler ran in a thread of its own.
OtherStart_InThread ==
  /\ other_pc = "waiting"
  /\ other_pc' = "analysed"
  /\ UNCHANGED <<call, buildings_gdf, glb_args, glb_out, pc, row, ts,
                 all_tile_bounding_boxes, tiles_dir, tileset_json, result, log,
                 first_run, fn_args, fn_out, api_pc, disk, land_use_gdf,
                 recommendation_details, calls, response>>

\* The event loop starts the other request when no coroutine is running.
OtherStart ==
  /\ other_pc = "waiting"
  /\ ~HandlerRunning
  /\ other_pc' = "analysed"
  /\ UNCHANGED <<call, buildings_gdf, glb_args, glb_out, pc, row, ts,
                 all_tile_bounding_boxes, tiles_dir, tileset_json, result, log,
                 first_run, fn_args, fn_out, api_pc, disk, land_use_gdf,
                 recommendation_details, calls, response>>

\* shutil.rmtree(scene_output_path) of the other request.
OtherRemovesDir ==
  /\ other_pc = "analysed"
  /\ tiles_dir' = {}
  /\ tileset_json' = <<>>
  /\ other_pc' = "prepared"
  /\ UNCHANGED <<call, buildings_gdf, glb_args, glb_out, pc, row, ts,
                 all_tile_bounding_boxes, result, log, first_run, fn_args, fn_out,
                 api_pc, disk, land_use_gdf, recommendation_details, calls, response>>

\* The other request writes its tile file.
OtherWritesTile ==
  /\ other_pc = "prepared"
  /\ tiles_dir' = {f \in tiles_dir : f.name # OtherTile.name} \cup {OtherTile}
  /\ other_pc' = "tiles"
  /\ UNCHANGED <<call, buildings_gdf, glb_args, glb_out, pc, row, ts,
                 all_tile_bounding_boxes, tileset_json, result, log, first_run,
                 fn_args, fn_out, api_pc, disk, land_use_gdf, recommendation_details,
                 calls, response>>

\* The other request writes its descriptor and responds.
OtherWritesDescriptor ==
  /\ other_pc = "tiles"
  /\ tileset_json' = <<OtherDescriptor>>
  /\ other_pc' = "done"
  /\ UNCHANGED <<call, buildings_gdf, glb_args, glb_out, pc, row, ts,
                 all_tile_bounding_boxes, tiles_dir, result, log, first_run,
                 fn_args, fn_out, api_pc, disk, land_use_gdf, recommendation_details,
                 calls, response>>

InitLoop ==
  /\ RequestArrives
  /\ other_pc = "waiting"

NextLoop ==
  \/ NextApi
  \/ OtherStart
  \/ OtherRemovesDir
  \/ OtherWritesTile
  \/ OtherWritesDescriptor

SpecLoop == InitLoop /\ [][NextLoop]_vars

\* ------------------------------------- direct calls of the analysis functions
MaxNearRows == 2
RecommendGeoms == {Footprint(1), FarPlot}
RecommendCells ==
  {Fin(20), Fin(14), Fin(0), Fin(-6), NaN, PosInf, StrCell, NoneCell, Fin(MaxFinite)}

RECURSIVE RecommendTablesOfLen(_)
RecommendTablesOfLen(n) ==
  IF n = 0 THEN {<<>>}
  ELSE {Append(t, Row(n - 1, g, c)) :
          t \in RecommendTablesOfLen(n - 1), g \in RecommendGeoms, c \in RecommendCells}

RecommendTables == UNION {RecommendTablesOfLen(n) : n \in 0..MaxNearRows}

RecommendTargets ==
  {NoGeometry, GeoSeries(<<>>), GeoSeries(<<Footprint(0)>>), BaseGeometry(Footprint(0)),
   BaseGeometry(EmptyPolygon), Unsupported}

RecommendArgs ==
  [target_plot_geometry : RecommendTargets, surrounding_buildings_gdf : RecommendTables,
   height_column : {HeightColumn, "elevation"}]

MaxPlotRows == 2
PlotIds == {"PlotA123", "PlotB"}
PlotGeoms == {Footprint(0), FarPlot, EmptyPolygon}

RECURSIVE PlotTablesOfLen(_)
PlotTablesOfLen(n) ==
  IF n = 0 THEN {<<>>}
  ELSE {Append(t, [plot_ID |-> id, geometry |-> g]) :
          t \in PlotTablesOfLen(n - 1), id \in PlotIds, g \in PlotGeoms}

PlotTables == UNION {PlotTablesOfLen(n) : n \in 0..MaxPlotRows}

TargetPlotArgs ==
  [land_use_gdf : PlotTables, plot_id_column : {PlotIdColumn, "id"},
   target_plot_id : {"PlotA123", "PlotC"}]

\* Strings of the request as sequences of characters.
MaxIdLen == 2
Chars == {"a", ".", " ", "/", "\\"}
Strings == UNION {[1..n -> Chars] : n \in 0..MaxIdLen}

\* str.replace(old, new) for one-character old and new.
replace(str, old, new) == [i \in 1..Len(str) |-> IF str[i] = old THEN new ELSE str[i]]

\* The name with the "/" left in.
request_specific_tileset_name_slash(id, column) ==
  replace(replace(<<"s", "c", "e", "n", "e", "_">> \o id \o <<"_">> \o column,
                  " ", "_"), "\\", "_")

\* f"scene_{target_plot_id}_{height_column}" with " ", "/" and "\\" replaced
\* by "_".
request_specific_tileset_name(id, column) ==
  replace(replace(replace(<<"s", "c", "e", "n", "e", "_">> \o id \o <<"_">> \o column,
                          " ", "_"), "/", "_"), "\\", "_")

\* absolute_tileset_base_dir, as path components below the project root.
TilesetBaseDir == << <<"s", "t", "a", "t", "i", "c">>, <<"t", "i", "l", "e", "s", "e", "t", "s">> >>

\* The components of a path string ("/" and "\\" separate).
RECURSIVE Components(_, _)
Components(str, current) ==
  IF str = <<>> THEN <<current>>
  ELSE IF Head(str) \in {"/", "\\"} THEN <<current>> \o Components(Tail(str), <<>>)
  ELSE Components(Tail(str), Append(current, Head(str)))

\* The directory a list of components leads to from dir: "" and "." stay,
\* ".." goes up.
RECURSIVE Resolve(_, _)
Resolve(dir, comps) ==
  IF comps = <<>> THEN dir
  ELSE IF Head(comps) \in {<<>>, <<".">>} THEN Resolve(dir, Tail(comps))
  ELSE IF Head(comps) = <<".", ".">>
  THEN Resolve(IF dir = <<>> THEN dir ELSE SubSeq(dir, 1, Len(dir) - 1), Tail(comps))
  ELSE Resolve(Append(dir, Head(comps)), Tail(comps))

\* os.path.join(absolute_tileset_base_dir, name): a name that starts with a
\* separator replaces the base.
scene_output_path(name) ==
  IF name # <<>> /\ Head(name) \in {"/", "\\"} THEN Resolve(<<>>, Components(name, <<>>))
  ELSE Resolve(TilesetBaseDir, Components(name, <<>>))

InitCalls ==
  /\ buildings_gdf = <<>>
  /\ glb_args = <<>>
  /\ glb_out = <<>>
  /\ pc = "idle"
  /\ row = 1
  /\ ts = EmptyTileSet
  /\ all_tile_bounding_boxes = <<>>
  /\ tiles_dir = {}
  /\ tileset_json = <<>>
  /\ result = None
  /\ log = <<>>
  /\ first_run = <<>>
  /\ NoRequest
  /\ fn_out = <<>>
  /\ \/ /\ call = "recommend_building_height"
        /\ fn_args \in {<<a>> : a \in RecommendArgs}
     \/ /\ call = "get_target_plot"
        /\ fn_args \in {<<a>> : a \in TargetPlotArgs}
     \/ /\ call = "scene_output_path"
        /\ fn_args \in {<<a>> : a \in [target_plot_id : Strings, height_column : Strings]}

RecommendCall ==
  /\ call = "recommend_building_height"
  /\ fn_out = <<>>
  /\ fn_out' = <<recommend_building_height(fn_args[1].target_plot_geometry,
                                            fn_args[1].surrounding_buildings_gdf,
                                            fn_args[1].height_column)>>
  /\ UNCHANGED <<call, buildings_gdf, glb_args, glb_out, pc, row, ts,
                 all_tile_bounding_boxes, tiles_dir, tileset_json, result, log,
                 first_run, fn_args, apiVars>>

GetTargetPlotCall ==
  /\ call = "get_target_plot"
  /\ fn_out = <<>>
  /\ fn_out' = <<get_target_plot(fn_args[1].land_use_gdf, fn_args[1].plot_id_column,
                                  fn_args[1].target_plot_id)>>
  /\ UNCHANGED <<call, buildings_gdf, glb_args, glb_out, pc, row, ts,
                 all_tile_bounding_boxes, tiles_dir, tileset_json, result, log,
                 first_run, fn_args, apiVars>>

SceneOutputPathCall ==
  /\ call = "scene_output_path"
  /\ fn_out = <<>>
  /\ LET name == request_specific_tileset_name(fn_args[1].target_plot_id,
                                                fn_args[1].height_column)
     IN fn_out' = <<[name |-> name, path |-> scene_output_path(name)]>>
  /\ UNCHANGED <<call, buildings_gdf, glb_args, glb_out, pc, row, ts,
                 all_tile_bounding_boxes, tiles_dir, tileset_json, result, log,
                 first_run, fn_args, apiVars>>

NextCalls ==
  \/ RecommendCall
  \/ GetTargetPlotCall
  \/ SceneOutputPathCall

SpecCalls == InitCalls /\ [][NextCalls]_vars

\* ================================================================ claims
\* The request has ended with this status and detail.
Responded(status_code, detail) ==
  /\ api_pc = "responded"
  /\ response = <<[status_code |-> status_code, detail |-> detail]>>

\* The output directory of the scene is as the request found it.
SceneDirUntouched ==
  /\ tiles_dir = (IF disk.stale THEN StaleTiles ELSE {})
  /\ tileset_json = (IF disk.stale THEN StaleDescriptor ELSE <<>>)

Called(f) == \E i \in 1..Len(calls) : calls[i] = f

Loaded == api_pc \notin {"none", "start"}
Generating == call = "generate_building_tileset"
Returned == Generating /\ pc = "done"
Written == Returned /\ result = "True"
\* The rows the loop has finished with; log[i] is what was logged for row i.
RowsDone == {i \in 1..Len(buildings_gdf) : i < row}
SavedRows == {i \in RowsDone : log[i] = "saved"}
HeightOf(i) == ParseHeight(buildings_gdf[i].height)
NonFinite(h) == h \in {NaN, PosInf, NegInf}

\* (center index, half-extent index) of the x, y and z axes of a box
Axes == {<<1, 4>>, <<2, 8>>, <<3, 12>>}
Low(box, a) == FSub(box[a[1]], box[a[2]])
High(box, a) == FAdd(box[a[1]], box[a[2]])
Contains(outer, inner) ==
  \A a \in Axes : /\ FLe(Low(outer, a), Low(inner, a))
                  /\ FGe(High(outer, a), High(inner, a))

\* C1: in a written tileset with at least one child, the root box contains
\* every child's box on each of the x, y and z axes.
C1_RootContainsChildren ==
  (Written /\ Len(ts.tiles) > 0) =>
     \A i \in 1..Len(ts.tiles) : Contains(ts.bounding_volume, ts.tiles[i].bounding_volume)

\* C2: the root box of a nonempty tileset is the tight union box: on each axis
\* its low side is a child's low side and below or equal to every child's, its
\* high side is a child's high side and above or equal to every child's, the
\* center is the midpoint and the half-extent half the span; with one child
\* the root box is that child's box.
C2_RootIsTightUnion ==
  (Written /\ Len(ts.tiles) > 0) =>
     LET root == ts.bounding_volume
         kids == [i \in 1..Len(ts.tiles) |-> ts.tiles[i].bounding_volume]
     IN /\ \A a \in Axes :
             /\ \E i \in 1..Len(kids) : Low(kids[i], a) = Low(root, a)
             /\ \A i \in 1..Len(kids) : FLe(Low(root, a), Low(kids[i], a))
             /\ \E i \in 1..Len(kids) : High(kids[i], a) = High(root, a)
             /\ \A i \in 1..Len(kids) : FGe(High(root, a), High(kids[i], a))
             /\ FAdd(root[a[1]], root[a[1]]) = FAdd(Low(root, a), High(root, a))
             /\ FAdd(root[a[2]], root[a[2]]) = FSub(High(root, a), Low(root, a))
        /\ Len(kids) = 1 => root = kids[1]

\* C3: the root's geometric error is strictly greater than every child's.
C3_RootErrorAboveChildren ==
  (Written /\ Len(ts.tiles) > 0) =>
     \A i \in 1..Len(ts.tiles) : FGt(ts.geometric_error, ts.tiles[i].geometric_error)

\* C4: every child tile has a geometric error > 0, and the geometric error
\* written to the descriptor is > 0 with and without children.
C4_ErrorsPositive ==
  /\ Generating => \A i \in 1..Len(ts.tiles) : FGt(ts.tiles[i].geometric_error, Fin(0))
  /\ Written => FGt(tileset_json[1].geometric_error, Fin(0))

NonPositive(h) == h # Raised /\ FLe(h, Fin(0))
FilesOfRow(i) == {f \in tiles_dir : f.row = i}

\* C5: create_glb_from_building returns None for every height <= 0 and builds
\* no mesh, whatever the footprint; generate_building_tileset writes no tile
\* file and adds no child for a row with such a height.
C5_NonPositiveHeightRejected ==
  /\ (call = "create_glb_from_building" /\ pc = "done"
        /\ FLe(glb_args[1].height, Fin(0)))
       => (glb_out[1].glb = None /\ ~glb_out[1].mesh)
  /\ Generating =>
       /\ Len(ts.tiles) = Cardinality(SavedRows)
       /\ \A i \in RowsDone :
            NonPositive(HeightOf(i)) =>
               (log[i] = "non_positive_height" /\ FilesOfRow(i) = {})

\* C6: a row whose height parses to NaN, +inf or -inf is skipped: no tile
\* file, no child tile and no bounding box for it.
C6_NonFiniteHeightRejected ==
  Generating =>
     /\ Len(all_tile_bounding_boxes) = Cardinality(SavedRows)
     /\ \A i \in RowsDone :
          NonFinite(HeightOf(i)) =>
             (log[i] # "saved" /\ {f \in FilesOfRow(i) : f.complete} = {})

\* C7: when the descriptor is written the call returned True and the children
\* are exactly the rows with a parsable positive height whose tile was built
\* and written.
C7_ChildrenAreTheValidRows ==
  (Returned /\ Len(tileset_json) = 1) =>
     /\ result = "True"
     /\ Len(ts.tiles) = Cardinality(SavedRows)
     /\ \A i \in RowsDone :
          (log[i] = "saved") <=>
             /\ HeightOf(i) # Raised
             /\ FGt(HeightOf(i), Fin(0))
             /\ log[i] \notin {"glb_failed", "glb_empty", "write_failed"}

\* C8: the call returns True whenever the descriptor was written and False
\* only when the output directories could not be created or the descriptor
\* could not be written.
C8_FalseOnlyOnDirOrDescriptor ==
  Returned =>
     /\ Len(tileset_json) = 1 => result = "True"
     /\ result = "False" =>
          log[Len(log)] \in {"error_makedirs", "error_write_tileset"}

\* C9 as claimed: a failed write of a tile file makes the call return False.
C9_WriteFailureIsFatal ==
  (Returned /\ \E i \in RowsDone : log[i] = "write_failed") => result = "False"

\* C9 as amended: a failed write of a tile file is logged, the row gets no
\* child tile and the loop goes on with the next row; the call returns True
\* when the descriptor is then written.
C9_WriteFailureSkipsRow ==
  Generating =>
     /\ Len(ts.tiles) = Cardinality(SavedRows)
     /\ (Len(log) > 0 /\ log[Len(log)] = "write_failed") =>
          \/ pc = "rows" /\ row = Len(log) + 1
          \/ pc = "done" /\ result = "True" /\ Len(tileset_json) = 1
     /\ (Returned /\ Len(tileset_json) = 1) => result = "True"

\* C9 witness: the first row's write failed, the second row was saved and the
\* descriptor was written.
C9_Witness ==
  /\ Written
  /\ Len(log) = 2
  /\ log[1] = "write_failed"
  /\ log[2] = "saved"
  /\ Len(tileset_json[1].tiles) = 1

\* The call returned and every row it processed was turned away for its
\* height or by create_glb_from_building (which returned None or raised);
\* creating the directories and writing the descriptor did not fail.
NoChildCase ==
  /\ Returned
  /\ \A i \in 1..Len(log) :
       log[i] \in {"bad_height", "non_positive_height", "glb_failed", "error_glb"}

\* C10: when no row produces a child the descriptor is written with the
\* default box, the default geometric error (100, > 0) and no children, no
\* tile file exists and the call returns True.
C10_EmptyTilesetDefaults ==
  NoChildCase =>
     /\ result = "True"
     /\ Len(tileset_json) = 1
     /\ tileset_json[1].tiles = <<>>
     /\ tileset_json[1].bounding_volume =
          <<Fin(0), Fin(0), Fin(0), Fin(1), Fin(0), Fin(0),
            Fin(0), Fin(1), Fin(0), Fin(0), Fin(0), Fin(1)>>
     /\ tileset_json[1].geometric_error = Fin(1000000)
     /\ FGt(tileset_json[1].geometric_error, Fin(0))
     /\ tiles_dir = {}

\* The file a saved row wrote is still in tiles/ as that row wrote it.
KeepsItsFile(i) == \E f \in tiles_dir : f.row = i /\ f.complete

\* C11: any two distinct rows that both produced a child have different
\* content URIs, and the tile file of each is still the one it wrote (no later
\* row of the run has overwritten it), also when index labels repeat.
C11_TileNamesUnique ==
  Generating =>
     /\ \A i, j \in 1..Len(ts.tiles) :
          i # j => ts.tiles[i].content_uri # ts.tiles[j].content_uri
     /\ \A i \in SavedRows : KeepsItsFile(i)

\* The row that produced child number k: the k-th saved row in table order.
RowOfChild(k) == CHOOSE i \in SavedRows : Cardinality({j \in SavedRows : j <= i}) = k
Children == 1..Len(ts.tiles)

\* C12: after a True return into a fresh directory, every child's content URI
\* is tiles/building_<index>.b3dm of its row and names the file that row
\* wrote, and every file in tiles/ is referenced by exactly one child.
C12_FilesMatchChildren ==
  Written =>
     /\ Len(ts.tiles) = Cardinality(SavedRows)
     /\ \A k \in Children :
          /\ ts.tiles[k].content_uri =
               <<"tiles", <<"building", buildings_gdf[RowOfChild(k)].index>> >>
          /\ \E f \in tiles_dir : /\ f.name = ts.tiles[k].content_uri[2]
                                  /\ f.row = RowOfChild(k)
                                  /\ f.complete
     /\ \A f \in tiles_dir :
          Cardinality({k \in Children : ts.tiles[k].content_uri[2] = f.name}) = 1

\* C13: the children are in the relative order of their rows: child number k
\* is the tile of the k-th saved row (its content URI carries that row's
\* label and its box is that row's box), whichever rows were skipped.
C13_ChildrenInTableOrder ==
  Generating =>
     /\ Len(ts.tiles) = Cardinality(SavedRows)
     /\ \A k \in Children :
          LET r == buildings_gdf[RowOfChild(k)]
          IN /\ ts.tiles[k].content_uri = <<"tiles", <<"building", r.index>> >>
             /\ ts.tiles[k].bounding_volume[3] = FHalf(ParseHeight(r.height))

\* C13 witness: rows labelled 1, 0, 0; the middle row was skipped and the
\* written children are the tiles of labels 1 and 0, in that order.
C13_Witness ==
  /\ Written
  /\ Len(buildings_gdf) = 3
  /\ <<buildings_gdf[1].index, buildings_gdf[2].index, buildings_gdf[3].index>> = <<1, 0, 0>>
  /\ log = <<"saved", "glb_failed", "saved">>
  /\ Len(tileset_json[1].tiles) = 2
  /\ tileset_json[1].tiles[1].content_uri = <<"tiles", <<"building", 1>> >>
  /\ tileset_json[1].tiles[2].content_uri = <<"tiles", <<"building", 0>> >>

HalfExtentsNonNegative(box) == \A a \in Axes : FGe(box[a[2]], Fin(0))

\* C14: each child's box is the box of its footprint bounds and [0, height]
\* (center at the midpoints and height/2, half-extents on the diagonal, zeros
\* elsewhere) with its lower z bound exactly 0, and every half-extent of every
\* box written (child, root or default) is >= 0.
C14_ChildBoxes ==
  Generating =>
     /\ \A k \in Children :
          LET r == buildings_gdf[RowOfChild(k)]
              b == Bounds(r.geometry)
              h == ParseHeight(r.height)
              box == ts.tiles[k].bounding_volume
              O == Fin(0)
          IN /\ box = <<FHalf(FAdd(b.minx, b.maxx)), FHalf(FAdd(b.miny, b.maxy)), FHalf(h),
                        FHalf(FSub(b.maxx, b.minx)), O, O,
                        O, FHalf(FSub(b.maxy, b.miny)), O,
                        O, O, FHalf(h)>>
             /\ HalfExtentsNonNegative(box)
             /\ Low(box, <<3, 12>>) = Fin(0)
     /\ Written => HalfExtentsNonNegative(tileset_json[1].bounding_volume)

\* A Polygon with fewer than 3 distinct vertices in its ring.
FewVertices(g) ==
  g.isPolygon /\ Cardinality({g.coords[i] : i \in 1..Len(g.coords)}) < 3

\* log[i] is the record of row i (not the record of a failed makedirs).
Attempted(i) == i \in 1..Len(log) /\ i <= Len(buildings_gdf) /\ log[i] # "error_makedirs"

\* C17: create_glb_from_building returns None for a footprint with fewer than
\* 3 distinct vertices; generate_building_tileset skips such a row with a
\* warning and goes on with the rows after it.
C17_TooFewVerticesSkipped ==
  /\ (call = "create_glb_from_building" /\ pc = "done"
        /\ FewVertices(glb_args[1].building_polygon))
       => glb_out[1].glb = None
  /\ Generating =>
       \A i \in 1..Len(log) :
          (/\ Attempted(i)
           /\ FewVertices(buildings_gdf[i].geometry)
           /\ ~NonPositive(HeightOf(i))
           /\ HeightOf(i) # Raised)
            => (log[i] = "glb_failed" /\ (pc = "done" => result = "True"))

\* C18: a zero-length payload is a hard error: the call that met one reports
\* failure (returns False), and the row gets no tile file and no child.
C18_EmptyPayloadIsHardError ==
  Generating =>
     /\ Len(ts.tiles) = Cardinality(SavedRows)
     /\ \A i \in 1..Len(log) :
          log[i] = "glb_empty" =>
             /\ FilesOfRow(i) = {}
             /\ Returned => result = "False"

\* The directed edges of a triangle, and how many times the faces F traverse
\* the edge from u to v.
EdgesOf(f) == {<<f[1], f[2]>>, <<f[2], f[3]>>, <<f[3], f[1]>>}
Traversals(F, e) == Cardinality({k \in 1..Len(F) : e \in EdgesOf(F[k])})
ClosedMesh(F) ==
  \A k \in 1..Len(F) : \A e \in EdgesOf(F[k]) :
     Traversals(F, e) = 1 /\ Traversals(F, <<e[2], e[1]>>) = 1

\* C16: for a valid simple footprint and a height > 0, the faces of the mesh
\* built are a closed mesh: every edge is traversed once in each direction.
\* (The value returned carries no flag that could mark a mesh approximate.)
C16_ClosedMesh ==
  (/\ call = "create_glb_from_building"
   /\ pc = "done"
   /\ glb_args[1].building_polygon \in SimpleFootprints
   /\ glb_out[1].mesh)
    => ClosedMesh(glb_out[1].faces)

IOFailures == {"error_makedirs", "write_failed", "error_write_tileset"}

\* The second run has returned, no file operation failed in either run, and
\* the library calls did for each row in the second run what they did in the
\* first.
SameCourse ==
  /\ Returned
  /\ first_run # <<>>
  /\ first_run[1].log = log
  /\ \A i \in 1..Len(log) : log[i] \notin IOFailures

C19_MissingDataIs404 ==
  (Loaded /\ (buildings_gdf = <<>> \/ land_use_gdf = <<>>)) =>
    /\ api_pc \in {"loaded", "responded"}
    /\ api_pc = "responded" =>
         Responded(404,
           IF buildings_gdf = <<>>
           THEN <<"Building data not found or empty at ", buildings_file>>
           ELSE <<"Land use data not found or empty at ", land_use_file>>)
    /\ ~Called("get_target_plot")
    /\ ~Called("rmtree")
    /\ ~Called("generate_building_tileset")
    /\ SceneDirUntouched

\* A request whose land-use file is missing, over a stale output directory,
\* has ended with the 404 and the directory still in place.
C19_Witness ==
  /\ Responded(404, <<"Land use data not found or empty at ", land_use_file>>)
  /\ buildings_gdf # <<>>
  /\ disk.land_use.state = "missing"
  /\ disk.stale
  /\ tiles_dir = StaleTiles

\* C20: when generate_building_tileset returns False the response is 500
\* with the detail "Failed to generate 3D tileset.", and the HTTPExceptions
\* raised inside the handler reach the client with their own status and
\* detail, not rewrapped as the generic 500.
C20_GenerateFailureIs500 ==
  api_pc = "responded" =>
    /\ buildings_gdf = <<>> =>
         Responded(404, <<"Building data not found or empty at ", buildings_file>>)
    /\ (buildings_gdf # <<>> /\ land_use_gdf = <<>>) =>
         Responded(404, <<"Land use data not found or empty at ", land_use_file>>)
    /\ (Called("generate_building_tileset") /\ result = "False") =>
         Responded(500, <<"Failed to generate 3D tileset.">>)

\* The generation ran over a loaded table, returned False, and the request
\* has ended with the 500.
C20_Witness ==
  /\ Responded(500, <<"Failed to generate 3D tileset.">>)
  /\ Called("generate_building_tileset")
  /\ pc = "done"
  /\ result = "False"
  /\ log # <<>>

\* What the analysis of the loaded tables gives.
TargetPlot == get_target_plot(land_use_gdf, plot_id_column, target_plot_id)
PlotFound == truthy(TargetPlot)
Recommended ==
  IF PlotFound
  THEN recommend_building_height(BaseGeometry(TargetPlot[1]), buildings_gdf, HeightColumn)
  ELSE <<>>

\* C21: the response carries a recommendation (value, plot id, position with
\* z = 0) exactly when the plot was found and recommend_building_height
\* returned a value; recommend_building_height is called only when the plot
\* was found; without a recommendation the tileset is still generated and,
\* when the generation succeeds, the response is 200 with the tileset URL.
C21_RecommendationReported ==
  /\ api_pc \in {"analysed", "prepared", "generating", "responded"} =>
       /\ Called("get_target_plot") =>
            (Called("recommend_building_height") <=> PlotFound)
  /\ (api_pc = "responded" /\ Called("generate_building_tileset") /\ result = "True") =>
       /\ response[1].status_code = 200
       /\ response[1].detail[1][Len(response[1].detail[1])] = "/tileset.json"
       /\ (response[1].detail[2] # <<>>) <=> (PlotFound /\ Recommended # <<>>)
       /\ response[1].detail[2] # <<>> =>
            /\ response[1].detail[2][1].value = Recommended[1]
            /\ response[1].detail[2][1].plot_id = target_plot_id
            /\ Len(response[1].detail[2][1].position) = 3
            /\ response[1].detail[2][1].position[3] = Fin(0)
  /\ (api_pc = "prepared" /\ Recommended = <<>>) => ENABLED CallGenerate

\* The call of recommend_building_height has returned.
RecommendReturned == call = "recommend_building_height" /\ fn_out # <<>>

\* The heights of the rows the claim counts: those of buildings that
\* intersect the buffered target and whose value is a number > 0.
ValidNearbyHeights ==
  LET a == fn_args[1]
      t == a.target_plot_geometry
      rows == a.surrounding_buildings_gdf
      counted(i) ==
        /\ t.geoms # <<>>
        /\ a.height_column = HeightColumn
        /\ IF t.geoms = <<>> THEN FALSE ELSE Nearby(t.geoms[1], rows[i].geometry)
        /\ rows[i].height[1] \in {"fin", "inf"}
        /\ IF rows[i].height[1] = "fin" THEN rows[i].height[2] > 0 ELSE TRUE
  IN {<<i, rows[i].height>> : i \in {k \in 1..Len(rows) : counted(k)}}

RECURSIVE SumOf(_)
SumOf(S) == IF S = {} THEN 0 ELSE LET x == CHOOSE x \in S : TRUE IN x[2][2] + SumOf(S \ {x})

\* C22: recommend_building_height returns None exactly when there is no
\* valid nearby height (target None, empty or unsupported, no table, no
\* building in the buffer, no height column, no value > 0); otherwise it
\* returns the arithmetic mean of the valid nearby heights (the exact mean
\* when their sum is a float), which is > 0 and lies between the smallest and
\* the largest of them.
C22_MeanOfValidNearbyHeights ==
  RecommendReturned =>
    LET out == fn_out[1]
        V == ValidNearbyHeights
    IN /\ out = <<>> <=> V = {}
       /\ out # <<>> =>
            /\ FGt(out[1], Fin(0))
            /\ \E v \in V : FLe(v[2], out[1])
            /\ \E v \in V : FLe(out[1], v[2])
            /\ ((\A v \in V : IsFin(v[2])) /\ SumOf(V) <= MaxFinite) =>
                 /\ IsFin(out[1])
                 /\ out[1][2] * Cardinality(V) = SumOf(V)

\* The call of get_target_plot has returned.
TargetPlotReturned == call = "get_target_plot" /\ fn_out # <<>>

\* The positions of the rows whose plot id is the target, when the column
\* asked for exists.
Matches ==
  LET a == fn_args[1]
  IN {i \in 1..Len(a.land_use_gdf) :
        a.plot_id_column = PlotIdColumn /\ a.land_use_gdf[i].plot_ID = a.target_plot_id}

\* C23: get_target_plot returns the geometry of the first row whose plot id
\* equals the target, and None (without raising) when no row matches, the
\* table is empty or the column does not exist; the table it was given is
\* never changed.
C23_FirstMatchingPlot ==
  /\ [](TargetPlotReturned =>
         fn_out[1] = IF Matches = {} THEN <<>>
                     ELSE <<fn_args[1].land_use_gdf[SetMin(Matches)].geometry>>)
  /\ [][call = "get_target_plot" => fn_args' = fn_args]_vars

\* Two rows carry the target id with different geometries, and the call
\* returned the first one.
C23_Witness ==
  /\ TargetPlotReturned
  /\ Matches = {1, 2}
  /\ fn_args[1].land_use_gdf[1].geometry # fn_args[1].land_use_gdf[2].geometry
  /\ fn_out[1] = <<fn_args[1].land_use_gdf[1].geometry>>

\* A direct call built a mesh for a simple valid footprint and a finite
\* height.
MeshBuilt ==
  /\ call = "create_glb_from_building"
  /\ pc = "done"
  /\ glb_args[1].building_polygon \in SimpleFootprints
  /\ IsFin(glb_args[1].height)
  /\ glb_out[1].mesh

Sign(x) == IF x > 0 THEN 1 ELSE IF x < 0 THEN -1 ELSE 0

\* The normal (b - a) x (c - a) of the face f over the vertices V.
Normal(V, f) ==
  LET a == V[f[1] + 1]
      b == V[f[2] + 1]
      c == V[f[3] + 1]
      ux == b[1] - a[1]
      uy == b[2] - a[2]
      uz == b[3][2] - a[3][2]
      vx == c[1] - a[1]
      vy == c[2] - a[2]
      vz == c[3][2] - a[3][2]
  IN <<uy * vz - uz * vy, uz * vx - ux * vz, ux * vy - uy * vx>>

\* Whether the point p, given in coordinates scaled by 6, lies inside the
\* ring pts (crossing number along the ray to +x).
InsideRing(pts, p) ==
  LET n == Len(pts)
      crosses(i) ==
        LET a == <<6 * pts[i][1], 6 * pts[i][2]>>
            b == <<6 * pts[(i % n) + 1][1], 6 * pts[(i % n) + 1][2]>>
        IN /\ (a[2] > p[2]) # (b[2] > p[2])
           /\ IF b[2] > a[2]
              THEN (p[1] - a[1]) * (b[2] - a[2]) < (p[2] - a[2]) * (b[1] - a[1])
              ELSE (p[1] - a[1]) * (b[2] - a[2]) > (p[2] - a[2]) * (b[1] - a[1])
  IN Cardinality({i \in 1..n : crosses(i)}) % 2 = 1

\* The wall face f is vertical and the point a step from its centroid along
\* its normal lies outside the footprint.
WallOutward(pts, V, f) ==
  LET N == Normal(V, f)
      a == V[f[1] + 1]
      b == V[f[2] + 1]
      c == V[f[3] + 1]
      p == <<2 * (a[1] + b[1] + c[1]) + Sign(N[1]), 2 * (a[2] + b[2] + c[2]) + Sign(N[2])>>
  IN /\ N[3] = 0
     /\ N[1] # 0 \/ N[2] # 0
     /\ ~InsideRing(pts, p)

\* C24: for a valid footprint ring listed in either direction, the two
\* triangles of every wall have normals that point away from the interior of
\* the solid.
C24_WallNormalsOutward ==
  MeshBuilt =>
    LET pts == unique_coords(glb_args[1].building_polygon)
    IN \A j \in 1..(2 * Len(pts)) :
         WallOutward(pts, glb_out[1].vertices, glb_out[1].faces[j])

CallOrder ==
  <<"load_buildings", "load_land_use", "get_target_plot", "recommend_building_height",
    "makedirs", "rmtree", "generate_building_tileset">>
Place(f) == CHOOSE i \in 1..Len(CallOrder) : CallOrder[i] = f

\* C26: the handler loads and tests both tables, then analyses, then removes
\* an existing output directory, and only then calls
\* generate_building_tileset, once; after a 200 response the output directory
\* holds only what this request wrote.
C26_StepsInOrder ==
  api_pc # "none" =>
    /\ \A i \in 1..Len(calls) : \A j \in 1..Len(calls) :
         i < j => Place(calls[i]) < Place(calls[j])
    /\ Called("get_target_plot") =>
         /\ Called("load_buildings") /\ Called("load_land_use")
         /\ buildings_gdf # <<>> /\ land_use_gdf # <<>>
    /\ Called("makedirs") => Called("get_target_plot")
    /\ (call = "generate_building_tileset") <=> Called("generate_building_tileset")
    /\ Called("generate_building_tileset") =>
         /\ Called("makedirs")
         /\ disk.stale => Called("rmtree")
         /\ tiles_dir \cap StaleTiles = {}
         /\ \A f \in tiles_dir : f.row \in 1..Len(buildings_gdf)
    /\ (api_pc = "responded" /\ response[1].status_code = 200) =>
         /\ Called("generate_building_tileset")
         /\ tileset_json = <<ts>>
         /\ \A f \in tiles_dir : f.row \in 1..Len(log)

\* A request that found the directory of an earlier request ended with 200:
\* the old tile is gone and the directory holds the tile of this request.
C26_Witness ==
  /\ api_pc = "responded"
  /\ response[1].status_code = 200
  /\ disk.stale
  /\ Called("rmtree")
  /\ Called("recommend_building_height")
  /\ Len(ts.tiles) = 1
  /\ tiles_dir # {}

\* The generation of this request is between its directory removal and its
\* response.
GenerationInProgress == api_pc \in {"prepared", "generating"}

\* C27: two requests for the same output directory, served by one process,
\* never run their handlers at the same time; so while a generation is in
\* progress its directory holds no file of the other request, the tile of
\* every row it saved is still in place, and the other request is never
\* between its removal and its descriptor while this one removes or writes.
C27_RequestsDoNotInterleave ==
  /\ ~(HandlerRunning /\ OtherRunning)
  /\ GenerationInProgress =>
       /\ OtherTile \notin tiles_dir
       /\ tileset_json # <<OtherDescriptor>>
       /\ \A i \in 1..Len(log) : log[i] = "saved" => KeepsItsFile(i)

\* Both requests were served and each wrote its tile: this one first, the
\* other one after its response.
C27_Witness ==
  /\ api_pc = "responded"
  /\ response[1].status_code = 200
  /\ log = <<"saved">>
  /\ other_pc = "done"
  /\ tileset_json = <<OtherDescriptor>>

\* C28: create_glb_from_building never raises: whatever the footprint and
\* the height (None and non-numeric values included) it returns None or a
\* non-empty bytes object.
C28_CreateGlbNeverRaises ==
  (call = "create_glb_from_building" /\ pc = "done") => glb_out[1].glb \in {None, Glb}

\* What the outer handler of generate_building_tileset logs.
FatalErrors ==
  {"error_makedirs", "error_glb", "error_packaging", "error_describe",
   "error_write_tileset"}

\* What the inner handlers of the row loop log for an exception they catch.
RowExceptions == {"bad_height", "write_failed"}

\* C29 as stated: the function returns True or False, and every exception
\* raised at any step of the run, the reading of a height and the writing of
\* a tile file included, makes it return False.
C29_EveryExceptionIsFalse ==
  Returned =>
    /\ result \in {"True", "False"}
    /\ (\E i \in 1..Len(log) : log[i] \in RowExceptions \cup FatalErrors) => result = "False"

\* C29 amended: generate_building_tileset never raises: it returns True or
\* False, False exactly when an exception reached its outer handler (an
\* exception caught by a handler of the row loop only skips the row); after
\* False there is no completed descriptor, and the tile file of every row
\* saved before the failure is still on disk.
C29_GenerateNeverRaises ==
  Returned =>
    /\ result \in {"True", "False"}
    /\ (result = "False") <=> (log # <<>> /\ log[Len(log)] \in FatalErrors)
    /\ result = "False" =>
         /\ tileset_json = <<>>
         /\ \A i \in 1..Len(log) :
              log[i] = "saved" => \E f \in tiles_dir : f.name = <<"building", buildings_gdf[i].index>>

\* The first row was saved, the second one raised outside the inner
\* handlers: False, no descriptor, the first tile still on disk.
C29_Witness ==
  /\ Returned
  /\ result = "False"
  /\ Len(log) = 2
  /\ log[1] = "saved"
  /\ log[2] \in {"error_glb", "error_packaging", "error_describe"}
  /\ KeepsItsFile(1)
  /\ tileset_json = <<>>

ScenePathComputed == call = "scene_output_path" /\ fn_out # <<>>

\* C30: for every target_plot_id and height_column the directory name starts
\* with "scene_" and holds no space, "/" or "\\", and the directory removed
\* and written is a direct child of the tileset base directory (neither the
\* base itself nor outside it).
C30_SceneDirInsideBase ==
  ScenePathComputed =>
    LET name == fn_out[1].name
        path == fn_out[1].path
    IN /\ Len(name) >= 6
       /\ SubSeq(name, 1, 6) = <<"s", "c", "e", "n", "e", "_">>
       /\ \A i \in 1..Len(name) : name[i] \notin {" ", "/", "\\"}
       /\ path = Append(TilesetBaseDir, name)
       /\ path # TilesetBaseDir

\* The plot id asked to climb out of the base ("/." with the column "."),
\* and the directory is still the child named "scene__.__.".
C30_Witness ==
  /\ ScenePathComputed
  /\ fn_args[1].target_plot_id = <<"/", ".">>
  /\ fn_args[1].height_column = <<".">>
  /\ fn_out[1].name = <<"s", "c", "e", "n", "e", "_", "_", ".", "_", ".">>
  /\ Len(fn_out[1].path) = 3

====
